---- MODULE Spec2Model ----
(***************************************************************************)
(* Model of the seat pool and the animated draw of src/src/App.tsx.        *)
(*                                                                         *)
(* State: the React state of App (seatCount, seats, highlightSeatId,       *)
(* isSpinning, lastResult, message) and, for every call of spinForSeat     *)
(* whose timer chain is still alive, the locals its step closure captured  *)
(* (seatsPool, currentIndex, remainingSteps).  One action per handler:     *)
(* the seat-count onChange together with the regeneration effect it        *)
(* triggers, handleReset, spinForSeat (with the first step it runs         *)
(* synchronously) and one timer firing of step.                            *)
(*                                                                         *)
(* A JavaScript number that is a seat count is kept in fixed point, as a   *)
(* multiple of 1/Den, because the onChange handler passes fractions on     *)
(* unrounded.  Seat ids, indices and tick counters are integers.           *)
(* The delay of a timer (42 ms, times 1.08 per tick) only orders the       *)
(* firings in time; the model lets pending timers fire in any order.       *)
(* The code sets no limit to the timer chains that can be pending at once  *)
(* (every reset during a draw leaves one behind); the model explores a     *)
(* draw request only while the chains still pending have at most           *)
(* MaxOverlap ticks left between them (one tick more in SpecDraws).        *)
(* A nullable value is the empty sequence (null) or a one-element one.     *)
(***************************************************************************)
EXTENDS Integers, Sequences, FiniteSets

\* ---- bounds of the model ----
MaxSeats == 2
MaxOverlap == 0
MaxExtraSteps == 0
MaxDefaultDraws == 1
MaxGenCount == 60

\* ---- program constants ----
Den == 2
MinSteps == 28
StepSpan == 18
DefaultSeatCount == 20

VARIABLES seatCount, seats, highlightSeatId, isSpinning, lastResult, message,
          sessions, completedDraws, lateCommits

vars == <<seatCount, seats, highlightSeatId, isSpinning, lastResult, message,
          sessions, completedDraws, lateCommits>>

\* seatCount .. message are the state of App.  sessions holds the locals of
\* the spinForSeat calls whose timer is pending.  completedDraws and
\* lateCommits are history: the terminal ticks since the pool was last
\* generated, of the draws started on this pool and of the draws started on
\* an earlier one.

null == <<>>

Some(x) == <<x>>

NoSeatsMessage == "Alle pladser er taget."

\* the slots that hold the pending spinForSeat calls
Slots == DOMAIN sessions

Pending(i) == sessions[i] # null

\* each pending call has a tick left, so MaxOverlap ticks are at most
\* MaxOverlap calls, and one more can be accepted
MaxSlots == MaxOverlap + 1

\* the ticks the pending calls in slots S have left between them
RECURSIVE TicksLeft(_)
TicksLeft(S) ==
    IF S = {} THEN 0
    ELSE LET i == CHOOSE j \in S : TRUE
         IN  (IF sessions[i] = null THEN 0 ELSE sessions[i][1].remainingSteps)
             + TicksLeft(S \ {i})

\* Math.ceil(a / b) for an integer a and b > 0
Ceil(a, b) == -((-a) \div b)

Min(a, b) == IF a < b THEN a ELSE b

\* ---- generateSeats ----

\* for (let i = 0; i < n; i++) seats.push({id: id++, side, indexOnSide: i, assigned: false})
\* with n in fixed point: the body runs while i * Den < n
RECURSIVE PushSeats(_, _, _, _, _)
PushSeats(acc, id, side, i, n) ==
    IF i * Den < n
    THEN PushSeats(Append(acc, [id |-> id, side |-> side, indexOnSide |-> i,
                                assigned |-> FALSE]),
                   id + 1, side, i + 1, n)
    ELSE acc

\* Math.floor in place of Math.ceil
TopCountFloor(count) == count \div (2 * Den)

\* Math.ceil(count / 2)
TopCount(count) == Ceil(count, 2 * Den)

generateSeats(count) ==
    LET topCount == TopCount(count)
        bottomCount == count - topCount * Den
        top == PushSeats(<<>>, 1, "top", 0, topCount * Den)
    IN  PushSeats(top, Len(top) + 1, "bottom", 0, bottomCount)

\* ---- derived values of a render ----

\* (s) => !s.assigned
IsFree(s) == ~s.assigned

\* the filter left out
allSeats == seats

\* seats.filter((s) => !s.assigned)
availableSeats == SelectSeq(seats, IsFree)

\* availableSeats.length === 0
NoneAvailable == Len(availableSeats) = 0

\* the ids of the seats of pool p whose assigned flag is b
IdsWith(p, b) == {p[j].id : j \in {m \in 1..Len(p) : p[m].assigned = b}}

\* ---- the locals of one spinForSeat call ----

\* the index read after currentIndex++
SeatAtNext(s) == s.seatsPool[((s.currentIndex + 1) % Len(s.seatsPool)) + 1]

\* seatsPool[currentIndex % seatsPool.length]
SeatAt(s) == s.seatsPool[(s.currentIndex % Len(s.seatsPool)) + 1]

\* remainingSteps-- left out
AdvanceIndexOnly(s) == [s EXCEPT !.currentIndex = @ + 1]

\* currentIndex++; remainingSteps--
Advance(s) == [s EXCEPT !.currentIndex = @ + 1, !.remainingSteps = @ - 1]

\* remainingSteps <= 0, read after the decrement
IsTerminal(s) == s.remainingSteps <= 0

\* prev.filter((s) => s.id !== finalSeat.id) in place of the map
MarkAssignedRemove(prev, id) == SelectSeq(prev, LAMBDA s : s.id # id)

\* prev.map((s) => s.id === finalSeat.id ? {...s, assigned: true} : s)
MarkAssigned(prev, id) ==
    [i \in 1..Len(prev) |->
        IF prev[i].id = id THEN [prev[i] EXCEPT !.assigned = TRUE] ELSE prev[i]]

\* const seatsPool = [...availableSeats]; currentIndex = 0; remainingSteps =
\* 28 + k.  origin and freeAtStart are history: whether the pool has been
\* replaced since, and the ids that were unassigned when the call was made.
NewSession(k) ==
    [seatsPool |-> availableSeats, currentIndex |-> 0,
     remainingSteps |-> MinSteps + k, origin |-> "current",
     freeAtStart |-> IdsWith(seats, FALSE)]

\* the seat a session commits if its timers keep firing: step() iterated
RECURSIVE FinalSeat(_)
FinalSeat(s) ==
    IF IsTerminal(Advance(s)) THEN SeatAt(s) ELSE FinalSeat(Advance(s))

\* what a regeneration leaves of the sessions: their timers stay scheduled;
\* origin records that the pool they were started on has been replaced
Outdated(how) ==
    [i \in Slots |->
        IF sessions[i] = null THEN null
        ELSE Some([sessions[i][1] EXCEPT
                     !.origin = IF @ = "reset" THEN "reset" ELSE how])]

\* step() with the setSeats call moved above the test of remainingSteps
RunStepMarking(i, s, spinning) ==
    LET seat == SeatAt(s)
        s1 == Advance(s)
    IN  /\ highlightSeatId' = Some(seat.id)
        /\ seats' = MarkAssigned(seats, seat.id)
        /\ IF IsTerminal(s1)
           THEN /\ lastResult' = Some(seat)
                /\ isSpinning' = FALSE
                /\ sessions' = [sessions EXCEPT ![i] = null]
                /\ IF s.origin = "current"
                   THEN /\ completedDraws' = completedDraws + 1
                        /\ UNCHANGED lateCommits
                   ELSE /\ lateCommits' = lateCommits + 1
                        /\ UNCHANGED completedDraws
           ELSE /\ sessions' = [sessions EXCEPT ![i] = Some(s1)]
                /\ isSpinning' = spinning
                /\ UNCHANGED <<lastResult, completedDraws, lateCommits>>

\* step(), run for the session s held in slot i; spinning is isSpinning as
\* the handler running step has set it so far (the setters of one handler are
\* applied together, the last call winning)
RunStep(i, s, spinning) ==
    LET seat == SeatAt(s)
        s1 == Advance(s)
    IN  /\ highlightSeatId' = Some(seat.id)
        /\ IF IsTerminal(s1)
           THEN /\ seats' = MarkAssigned(seats, seat.id)
                /\ lastResult' = Some(seat)
                /\ isSpinning' = FALSE
                /\ sessions' = [sessions EXCEPT ![i] = null]
                /\ IF s.origin = "current"
                   THEN /\ completedDraws' = completedDraws + 1
                        /\ UNCHANGED lateCommits
                   ELSE /\ lateCommits' = lateCommits + 1
                        /\ UNCHANGED completedDraws
           ELSE /\ sessions' = [sessions EXCEPT ![i] = Some(s1)]
                /\ isSpinning' = spinning
                /\ UNCHANGED <<seats, lastResult, completedDraws, lateCommits>>

\* ---- actions ----

\* onChange of the seat-count input with the number v typed, followed by the
\* regeneration effect of the render it causes
SetSeatCount(v) ==
    LET n == IF v > 0 THEN v ELSE 0
    IN  /\ seatCount' = n
        /\ IF n # seatCount /\ Len(seats) * Den # n
           THEN /\ seats' = generateSeats(n)
                /\ lastResult' = null
                /\ message' = null
                /\ highlightSeatId' = null
                /\ sessions' = Outdated("replaced")
                /\ completedDraws' = 0
                /\ lateCommits' = 0
           ELSE UNCHANGED <<seats, lastResult, message, highlightSeatId,
                            sessions, completedDraws, lateCommits>>
        /\ UNCHANGED isSpinning

\* handleReset without setIsSpinning(false)
handleResetKeepSpinning ==
    /\ seats' = generateSeats(seatCount)
    /\ lastResult' = null
    /\ message' = null
    /\ highlightSeatId' = null
    /\ sessions' = Outdated("reset")
    /\ completedDraws' = 0
    /\ lateCommits' = 0
    /\ UNCHANGED <<seatCount, isSpinning>>

handleReset ==
    /\ seats' = generateSeats(seatCount)
    /\ lastResult' = null
    /\ message' = null
    /\ highlightSeatId' = null
    /\ isSpinning' = FALSE
    /\ sessions' = Outdated("reset")
    /\ completedDraws' = 0
    /\ lateCommits' = 0
    /\ UNCHANGED seatCount

\* setIsSpinning(true) moved above the availability test
RefuseDrawSpinning ==
    /\ message' = Some(NoSeatsMessage)
    /\ isSpinning' = TRUE
    /\ UNCHANGED <<seatCount, seats, highlightSeatId, lastResult, sessions,
                    completedDraws, lateCommits>>

\* setMessage("Alle pladser er taget."); return
RefuseDraw ==
    /\ message' = Some(NoSeatsMessage)
    /\ UNCHANGED <<seatCount, seats, highlightSeatId, isSpinning,
                    lastResult, sessions, completedDraws, lateCommits>>

\* if (isSpinning) return; left out
spinForSeatUnguarded(k) ==
    IF NoneAvailable
    THEN RefuseDraw
    ELSE \E i \in Slots :
         /\ sessions[i] = null
         /\ \A j \in Slots : j < i => sessions[j] # null
         /\ message' = null
         /\ RunStep(i, NewSession(k), TRUE)
         /\ UNCHANGED seatCount

\* spinForSeat with Math.floor(Math.random() * 18) = k
spinForSeat(k) ==
    IF isSpinning
    THEN UNCHANGED vars
    ELSE IF NoneAvailable
    THEN RefuseDraw
    ELSE \E i \in Slots :
         /\ sessions[i] = null
         /\ \A j \in Slots : j < i => sessions[j] # null
         /\ message' = null
         /\ RunStep(i, NewSession(k), TRUE)
         /\ UNCHANGED seatCount

\* a timer set by window.setTimeout(step, delay) fires
step(i) ==
    /\ sessions[i] # null
    /\ RunStep(i, sessions[i][1], isSpinning)
    /\ UNCHANGED <<seatCount, message>>

\* ---- specifications ----

\* the numbers typed into the seat-count input: the integers up to MaxSeats,
\* a negative one (-1/Den) and a fraction (MaxSeats - 1/Den)
SeatCountInputs == {-1, MaxSeats * Den - 1} \cup {c * Den : c \in 0..MaxSeats}

\* the random tick counts explored: 28 + k
StepChoices == 0..Min(MaxExtraSteps, StepSpan - 1)

\* After mounting: seatCount comes from localStorage (here any integer count
\* in range), the stored pool is absent and the regeneration effect has run.
Mounted(counts, slots) ==
    /\ seatCount \in {c * Den : c \in counts}
    /\ seats = generateSeats(seatCount)
    /\ highlightSeatId = null
    /\ isSpinning = FALSE
    /\ lastResult = null
    /\ message = null
    /\ sessions = [i \in 1..slots |-> null]
    /\ completedDraws = 0
    /\ lateCommits = 0

Init == Mounted(0..MaxSeats, MaxSlots)

\* the draw requests explored: those that start no session, and those made
\* while the pending sessions have at most b ticks left between them
WithinOverlap(b) == isSpinning \/ NoneAvailable \/ TicksLeft(Slots) <= b

Next ==
    \/ \E v \in SeatCountInputs : SetSeatCount(v)
    \/ handleReset
    \/ \E k \in StepChoices : WithinOverlap(MaxOverlap) /\ spinForSeat(k)
    \/ \E i \in Slots : step(i)

Spec == Init /\ [][Next]_vars

\* Every pending timer fires eventually.  A session's ticks do not depend on
\* the other sessions, so the draws are taken one at a time here: a request
\* that would start a session is made when no timer is pending.
Quiet == \A i \in Slots : ~Pending(i)

InitLive == Mounted(0..MaxSeats, 1)

NextLive ==
    \/ \E v \in SeatCountInputs : SetSeatCount(v)
    \/ handleReset
    \/ \E k \in StepChoices :
          (isSpinning \/ NoneAvailable \/ Quiet) /\ spinForSeat(k)
    \/ step(1)

LiveSpec == InitLive /\ [][NextLive]_vars /\ WF_vars(step(1))

\* Spec with integers only typed into the seat-count input (a negative one
\* included)
IntegerInputs == {c * Den : c \in (-1)..MaxSeats}

NextIntegerCounts ==
    \/ \E v \in IntegerInputs : SetSeatCount(v)
    \/ handleReset
    \/ \E k \in StepChoices : WithinOverlap(MaxOverlap) /\ spinForSeat(k)
    \/ \E i \in Slots : step(i)

SpecIntegerCounts == Init /\ [][NextIntegerCounts]_vars

\* The pool of a first visit (no localStorage: 20 seats), with every tick
\* count the code can choose and a bounded number of draws.
InitDefault == Mounted({DefaultSeatCount}, MaxSlots)

NextDefault ==
    \/ \E k \in 0..(StepSpan - 1) :
          /\ Cardinality(IdsWith(seats, TRUE)) < MaxDefaultDraws
          /\ spinForSeat(k)
    \/ \E i \in Slots : step(i)

SpecDefault == InitDefault /\ [][NextDefault]_vars

\* generateSeats applied to every count up to MaxGenCount, through the two
\* handlers that call it
InitGen == Mounted(0..MaxGenCount, MaxSlots)

NextGen ==
    \/ \E v \in (-1)..(MaxGenCount * Den) : SetSeatCount(v)
    \/ handleReset

SpecGen == InitGen /\ [][NextGen]_vars

\* Draw requests, ticks and resets on a pool whose seat count is never
\* changed, with one seat and one tick of overlap more than in Spec.
InitDraws == Mounted(0..(MaxSeats + 1), MaxSlots + 1)

NextDraws ==
    \/ handleReset
    \/ \E k \in StepChoices : WithinOverlap(MaxOverlap + 1) /\ spinForSeat(k)
    \/ \E i \in Slots : step(i)

SpecDraws == InitDraws /\ [][NextDraws]_vars

\* ---- what the properties speak of ----

\* the step from this state to the next is the terminal tick of slot i: a
\* session leaves its slot only when step() returns without setTimeout
TerminalTick(i) == Pending(i) /\ sessions'[i] = null

\* ... a tick of slot i that schedules the next one
OrdinaryTick(i) ==
    /\ Pending(i)
    /\ sessions'[i] # null
    /\ sessions'[i][1].currentIndex = sessions[i][1].currentIndex + 1

\* the positions of pool p whose assigned flag differs in pool q
Changed(p, q) ==
    IF Len(p) # Len(q) THEN {0}
    ELSE {j \in 1..Len(p) : p[j] # q[j]}

AllAssigned == \A j \in 1..Len(seats) : seats[j].assigned

\* pool q is pool p with one unassigned seat marked assigned, all else equal
MarksOne(p, q) ==
    /\ Len(q) = Len(p)
    /\ \E j \in 1..Len(p) :
          /\ ~p[j].assigned
          /\ q[j] = [p[j] EXCEPT !.assigned = TRUE]
          /\ \A m \in (1..Len(p)) \ {j} : q[m] = p[m]

\* C1: the terminal tick of every draw changes the pool in exactly one seat,
\* whose assigned flag goes from false to true, whatever draw requests, resets
\* and seat-count changes came before it.
ExactlyOneSeatMarked ==
    [][\A i \in Slots : TerminalTick(i) => MarksOne(seats, seats')]_vars

\* C2: in every reachable state at most one draw session has a tick pending.
AtMostOneSession == Cardinality({i \in Slots : Pending(i)}) <= 1

\* C3: once handleReset has replaced the pool, no tick of a session started
\* before that reset changes the pool.
ResetDiscardsDraw ==
    [][\A i \in Slots :
          (Pending(i) /\ sessions[i][1].origin = "reset"
                      /\ sessions'[i] # sessions[i]) => seats' = seats]_vars

\* C4: while the seat count is not changed, once N draws have been started
\* and completed on a pool of N seats every seat is assigned, a pool is never
\* fully assigned after fewer than N terminal ticks, and the draw request
\* that follows the N-th completed draw fails with the no-seats message.
ExhaustedExactly ==
    /\ completedDraws = Len(seats) => AllAssigned
    /\ AllAssigned => completedDraws + lateCommits >= Len(seats)

NextDrawFails ==
    (/\ completedDraws = Len(seats)
     /\ ~isSpinning
     /\ \E k \in 0..(StepSpan - 1) : spinForSeat(k))
    => /\ message' = Some(NoSeatsMessage)
       /\ UNCHANGED <<seats, isSpinning, sessions>>

PoolExhaustion == [](ExhaustedExactly) /\ [][NextDrawFails]_vars

\* C5: the seat a draw commits at its terminal tick, and every seat whose
\* flag that tick changes, was unassigned in the pool when spinForSeat
\* accepted the draw.
CommittedSeatWasFree ==
    [][\A i \in Slots : TerminalTick(i) =>
          /\ lastResult' # null
          /\ lastResult'[1].id \in sessions[i][1].freeAtStart
          /\ \A j \in Changed(seats, seats') :
                /\ j # 0
                /\ seats[j].id \in sessions[i][1].freeAtStart]_vars

\* the second draw on a pool of two has committed the seat the first left free
SecondDrawCommitted ==
    /\ Len(seats) = 2
    /\ AllAssigned
    /\ completedDraws = 2
    /\ lastResult # null
    /\ \A i \in Slots : ~Pending(i)

\* C6: a draw request made while idle on a pool without a free seat sets the
\* no-seats message and nothing else: the pool, isSpinning (false), the
\* sessions and the highlighted seat stay as they were.
NoAvailableSeatsFails ==
    [][(/\ ~isSpinning
        /\ AllAssigned
        /\ \E k \in 0..(StepSpan - 1) : spinForSeat(k))
       => /\ message' = Some(NoSeatsMessage)
          /\ isSpinning' = FALSE
          /\ UNCHANGED <<seatCount, seats, highlightSeatId, lastResult,
                          sessions, completedDraws, lateCommits>>]_vars

\* the request has been refused on a pool whose seats are all taken
RefusedOnFullPool ==
    /\ message = Some(NoSeatsMessage)
    /\ Len(seats) > 0
    /\ AllAssigned
    /\ ~isSpinning

\* C7: every started draw terminates.  Each tick lowers remainingSteps by one,
\* the tick that brings it to 0 is the last one of its session and leaves
\* isSpinning false, and under fair timers every session reaches it, whatever
\* resets and seat-count changes happen in between.
TickProgress ==
    \A i \in Slots :
        /\ OrdinaryTick(i) =>
              /\ sessions'[i][1].remainingSteps = sessions[i][1].remainingSteps - 1
              /\ sessions'[i][1].remainingSteps > 0
        /\ TerminalTick(i) =>
              /\ sessions[i][1].remainingSteps = 1
              /\ isSpinning' = FALSE
        /\ (Pending(i) /\ sessions'[i] # null) =>
              sessions'[i][1].remainingSteps <= sessions[i][1].remainingSteps

DrawTerminates ==
    /\ [][TickProgress]_vars
    /\ Pending(1) ~> ~Pending(1)


\* a draw has run to its terminal tick although the pool was regenerated
\* while it was running
TerminatedAcrossRegeneration ==
    /\ lastResult # null
    /\ ~isSpinning
    /\ lateCommits = 1
    /\ \A i \in Slots : ~Pending(i)

\* C8: for an integer count c >= 0, generateSeats(c) has c seats, all
\* unassigned, with ids 1..c in order; the first ceil(c/2) are top and the
\* rest bottom, and indexOnSide counts from 0 within each side.
Shape(p, c) ==
    LET t == (c + 1) \div 2
    IN  /\ Len(p) = c
        /\ \A j \in 1..Len(p) :
              /\ p[j].id = j
              /\ ~p[j].assigned
              /\ p[j].side = (IF j <= t THEN "top" ELSE "bottom")
              /\ p[j].indexOnSide = (IF j <= t THEN j - 1 ELSE j - t - 1)

GeneratedPoolShape ==
    seatCount % Den = 0 => Shape(seats, seatCount \div Den)

\* generate(5): top ids 1,2,3 and bottom ids 4,5
GeneratedFive ==
    /\ seatCount = 5 * Den
    /\ Len(seats) = 5
    /\ seats[3].side = "top" /\ seats[3].indexOnSide = 2
    /\ seats[4].side = "bottom" /\ seats[4].indexOnSide = 0
    /\ seats[5].id = 5 /\ seats[5].indexOnSide = 1

\* C9: after the seat count is changed to n and the regeneration effect has
\* run, the pool is generateSeats(n): its length is n and every seat is
\* unassigned.
SeatCountChangeRegenerates ==
    [][seatCount' # seatCount =>
          /\ seats' = generateSeats(seatCount')
          /\ Len(seats') * Den = seatCount'
          /\ \A j \in 1..Len(seats') : ~seats'[j].assigned]_vars

\* C10: whenever a draw can start, every free seat is the seat committed for
\* at least one of the tick counts 28 + k, k in 0..17.
EveryFreeSeatReachable ==
    \A j \in 1..Len(availableSeats) :
        \E k \in 0..(StepSpan - 1) :
            FinalSeat(NewSession(k)).id = availableSeats[j].id

\* C11: a draw request made while isSpinning is true changes nothing: not the
\* pool, isSpinning, the highlighted seat, lastResult or the message, and it
\* starts no session and schedules no tick.
BusyRequestIgnored ==
    [][(/\ isSpinning
        /\ \E k \in 0..(StepSpan - 1) : spinForSeat(k))
       => /\ seats' = seats
          /\ isSpinning' = TRUE
          /\ highlightSeatId' = highlightSeatId
          /\ lastResult' = lastResult
          /\ message' = message
          /\ sessions' = sessions
          /\ seatCount' = seatCount]_vars

\* a draw is running on an emptied pool (the seat count was set to 0 after
\* it started): a request made now meets both guards of spinForSeat
RunningOnEmptyPool ==
    /\ isSpinning
    /\ Len(seats) = 0
    /\ message = null
    /\ \E i \in Slots : Pending(i) /\ sessions[i][1].currentIndex >= 2

\* the step from this state to the next is spinForSeat starting a session in
\* slot i, its first tick included
Accepted(i) == ~Pending(i) /\ sessions'[i] # null

\* element k (counted from 1) of the cyclic reading of snapshot p
Cyclic(p, k) == p[((k - 1) % Len(p)) + 1]

\* C12: a draw with tick count T highlights T times and commits once, at the
\* T-th tick, after which it does nothing more; the k-th highlight is the
\* seat at index (k-1) mod L of the snapshot of the free seats taken when the
\* draw started, in pool order, and the committed seat is the T-th highlight.
HighlightSequence ==
    [][\A i \in Slots :
          /\ Accepted(i) =>
                LET s == sessions'[i][1]
                IN  /\ s.seatsPool = availableSeats
                    /\ s.currentIndex = 1
                    /\ s.currentIndex + s.remainingSteps
                          \in MinSteps..(MinSteps + StepSpan - 1)
                    /\ highlightSeatId' = Some(Cyclic(availableSeats, 1).id)
                    /\ lastResult' = lastResult
          /\ OrdinaryTick(i) =>
                LET s == sessions[i][1]
                    s1 == sessions'[i][1]
                IN  /\ highlightSeatId'
                          = Some(Cyclic(s.seatsPool, s.currentIndex + 1).id)
                    /\ s1.seatsPool = s.seatsPool
                    /\ s1.currentIndex + s1.remainingSteps
                          = s.currentIndex + s.remainingSteps
                    /\ s1.remainingSteps >= 1
                    /\ lastResult' = lastResult
          /\ TerminalTick(i) =>
                LET s == sessions[i][1]
                    T == s.currentIndex + s.remainingSteps
                IN  /\ s.currentIndex + 1 = T
                    /\ highlightSeatId' = Some(Cyclic(s.seatsPool, T).id)
                    /\ lastResult' = Some(Cyclic(s.seatsPool, T))]_vars

\* a draw of 28 ticks on two free seats has ended on the second one
EndedOnSecondOfTwo ==
    /\ Len(seats) = 2
    /\ completedDraws = 1
    /\ lateCommits = 0
    /\ highlightSeatId = Some(2)
    /\ lastResult # null
    /\ lastResult[1].id = 2
    /\ seats[2].assigned
    /\ ~seats[1].assigned
    /\ \A i \in Slots : ~Pending(i)

\* C13: the pool changes only when it is regenerated (reset, seat-count
\* change) or when a draw's terminal tick commits: accepting a draw request
\* and every tick that schedules another leave the pool, every assigned flag
\* included, as it was.
PoolChangesOnlyByCommit ==
    [][/\ (\E i \in Slots : Accepted(i) \/ OrdinaryTick(i)) => seats' = seats
       /\ seats' # seats =>
             \/ \E i \in Slots : TerminalTick(i)
             \/ seats' = generateSeats(seatCount')]_vars

\* a draw on two free seats is several ticks in and both seats are still free
MidDrawPoolUntouched ==
    /\ isSpinning
    /\ Len(seats) = 2
    /\ Len(availableSeats) = 2
    /\ \E i \in Slots :
          /\ Pending(i)
          /\ sessions[i][1].origin = "current"
          /\ sessions[i][1].currentIndex >= 3

\* C14: right after a reset with seat count n, whatever the state before it
\* (a running draw included), the pool is generateSeats(n) with every seat
\* unassigned, isSpinning is false, and the highlighted seat, the last
\* result and the message are null.
ResetRestoresFreshPool ==
    [][handleReset =>
          /\ seatCount' = seatCount
          /\ seats' = generateSeats(seatCount)
          /\ \A j \in 1..Len(seats') : ~seats'[j].assigned
          /\ (seatCount % Den = 0 => Shape(seats', seatCount \div Den))
          /\ isSpinning' = FALSE
          /\ highlightSeatId' = null
          /\ lastResult' = null
          /\ message' = null]_vars

\* the reset came while a draw was running: its timer is still pending and
\* has not fired since
ResetDuringDraw ==
    /\ ~isSpinning
    /\ highlightSeatId = null
    /\ lastResult = null
    /\ message = null
    /\ Len(seats) = 2
    /\ Len(availableSeats) = 2
    /\ \E i \in Slots :
          /\ Pending(i)
          /\ sessions[i][1].origin = "reset"
          /\ sessions[i][1].currentIndex >= 2

\* pool p has c seats with ids 1..c in order, the first ceil(c/2) on the top
\* side and the rest on the bottom side, indexOnSide counting from 0
Layout(p, c) ==
    LET t == (c + 1) \div 2
    IN  /\ Len(p) = c
        /\ \A j \in 1..Len(p) :
              /\ p[j].id = j
              /\ p[j].side = (IF j <= t THEN "top" ELSE "bottom")
              /\ p[j].indexOnSide = (IF j <= t THEN j - 1 ELSE j - t - 1)

PoolWellFormed ==
    /\ Len(seats) * Den = seatCount
    /\ Layout(seats, Len(seats))

CommitKeepsSeats ==
    \A i \in Slots : TerminalTick(i) =>
        /\ Len(seats') = Len(seats)
        /\ \A j \in 1..Len(seats) :
              [seats'[j] EXCEPT !.assigned = seats[j].assigned] = seats[j]

\* C15: with integer seat counts, in every reachable state (after any draws,
\* ticks, commits, resets and seat-count changes) the pool's ids are 1..length
\* in order, the top/bottom split is ceil(length/2) and the rest, and the
\* length is the seat count; a commit changes assigned flags only, never id,
\* side or indexOnSide.
PoolLayoutKept == [](PoolWellFormed) /\ [][CommitKeepsSeats]_vars

\* a draw started on a pool of one seat has committed into the pool of two
\* that replaced it
CommittedIntoLargerPool ==
    /\ seatCount = 2 * Den
    /\ Len(seats) = 2
    /\ lateCommits = 1
    /\ completedDraws = 0
    /\ seats[1].assigned
    /\ ~seats[2].assigned
    /\ lastResult # null

\* pool p has a seat with this id whose assigned flag is b
HasSeat(p, id, b) == \E j \in 1..Len(p) : p[j].id = id /\ p[j].assigned = b

\* C16: whenever lastResult is not null, the pool has a seat with its id and
\* that seat is assigned, also when a reset or a seat-count change came while
\* the draw was running.
LastResultIsAssignedSeat ==
    lastResult # null => HasSeat(seats, lastResult[1].id, TRUE)

\* C17: the highlighted seat id is null or the id of a seat of the pool, and
\* while isSpinning is true that seat is unassigned.
HighlightIsPoolSeat ==
    highlightSeatId # null =>
        /\ \E b \in BOOLEAN : HasSeat(seats, highlightSeatId[1], b)
        /\ isSpinning => HasSeat(seats, highlightSeatId[1], FALSE)

\* C18: isSpinning is true exactly when some session has a tick pending, so
\* no session can highlight or commit while isSpinning is false.
SpinningIffTickPending == isSpinning <=> \E i \in Slots : Pending(i)

====
